---- MODULE Spec2Model ----
(***************************************************************************)
(* StatMonitor: the GET / handler `root` of src/src/main.rs and the one    *)
(* shared AppState behind a tokio Mutex.                                   *)
(*                                                                         *)
(* Every request runs `root` from the lock() call to the drop of the       *)
(* guard.  A request is a slot of Requests; a slot that has returned may   *)
(* carry a new request.  The wall clock is an input: every reading of it   *)
(* may return any value of Times (it can be set, also backwards).          *)
(*                                                                         *)
(* Representation of f32: a CPU value v is written as the integer 8 * v.   *)
(* The readings used (multiples of 1/8) and their products by 100.0 are    *)
(* exact in f32, so integer arithmetic on the numerators is the f32        *)
(* arithmetic of the handler.                                              *)
(***************************************************************************)
EXTENDS Integers, Sequences, FiniteSets, TLC

\* ------------------------------------------------------------------ bounds
NumReq == 2        \* request slots that may be in flight together
MaxClock == 12     \* chrono::Utc::now().timestamp() returns 0..MaxClock
MaxBytes == 2      \* largest byte count the sampler reports
MaxSub == 6        \* largest small byte count SubSpec draws

\* --------------------------------------------------------------- constants
StaleAfter == 5    \* seconds, main.rs:90

Requests == 1..NumReq
Times == 0..MaxClock

\* Option<T> / Result<T, E>: the payload of an error is never inspected.
None == [some |-> FALSE]
Some(v) == [some |-> TRUE, val |-> v]

\* ----------------------------------------------------- sampler (systemstat)
\* sys.memory() / sys.swap(): Ok(total, free) or Err.  The second reading is
\* the platform anomaly free > total.
ByteReadings ==
    { [total |-> MaxBytes, free |-> 1], [total |-> 1, free |-> MaxBytes] }
MemResults == {None} \cup { Some(r) : r \in ByteReadings }

\* DelayedMeasurement<CPULoad>::done(): Ok(load) or Err; fractions in 1/8.
CpuLoads ==
    { [user |-> 1, nice |-> 0, system |-> 1, interrupt |-> 0, idle |-> 6],
      [user |-> 4, nice |-> 1, system |-> 2, interrupt |-> 1, idle |-> 0] }
DoneResults == {None} \cup { Some(l) : l \in CpuLoads }

\* ------------------------------------------------------------------- types
ZeroCpu == [user |-> 0, nice |-> 0, interrupt |-> 0, system |-> 0, idle |-> 0]
ZeroMemory == [used |-> 0, total |-> 0]

NoResponse == [kind |-> "none"]
ErrorJson(msg) == [kind |-> "error", error |-> msg]
SnapshotJson(c, m, s) == [kind |-> "ok", cpu |-> c, memory |-> m, swap |-> s]

VARIABLES
    state,        \* the AppState inside the Mutex
    holders,      \* requests that hold a MutexGuard
    waiters,      \* FIFO queue of the Mutex's semaphore
    pc,           \* position of each request in root
    now,          \* local `now`
    mem,          \* local `mem`: Option<Memory>
    swap,         \* local `swap`: Option<Memory>
    cpu,          \* local `cpu`: io::Result<DelayedMeasurement>, TRUE = Ok
    cpu_usage,    \* local `cpu_usage`: io::Result<CPULoad>
    resp,         \* the Json value the request returns
    sampled,      \* history: sampling passes this request started
    sleeps,       \* history: settling delays this request went through
    arrivedStale, \* history: the store was stale when the request arrived, on
                  \*   the latest reading of the clock: the one of the holder
                  \*   it queued behind, or its own if it got the lock at once
    handed,       \* history: the guard came from the previous holder's drop
    inOrder,      \* history: handed, and now is not before the previous now
    before,       \* history: the store as the request found it under the lock
    firstAccess,  \* history: "none", "now" (first holder in flight), "past"
    prev,         \* history: the outcome of the first of a pair of requests
                  \*   that both arrived while the store was stale, when the
                  \*   first ran a sampling pass and handed the lock to the
                  \*   second (its now is kept until the second reads the clock)
    lastPass,     \* history: the triple of the last successful sampling pass
    failedAt,     \* history, kept under FailSpec only: the earliest now of
                  \*   the failed sampling passes since the last successful
                  \*   one, NoFailure if none
    sub           \* SubSpec only: a reading and the Memory made from it

vars == << state, holders, waiters, pc, now, mem, swap, cpu, cpu_usage, resp,
           sampled, sleeps, arrivedStale, handed, inOrder, before,
           firstAccess, prev, lastPass, failedAt, sub >>

hist == << sampled, sleeps, arrivedStale, handed, inOrder, before,
           firstAccess, prev, lastPass >>

\* --------------------------------------------------------- pure operators
\* variants of IsStale: the window reached at 5 already; no window at all;
\* a window one second longer; a distance in either direction
IsStaleInclusive(n, last) == n - last >= StaleAfter
IsStaleNoWindow(n, last) == n - last > 0
IsStaleLate(n, last) == n - last > StaleAfter + 1
IsStaleEitherWay(n, last) == n - last > StaleAfter \/ last - n > StaleAfter

\* main.rs:90
IsStale(n, last) == n - last > StaleAfter

\* variant of saturating_sub_bytes: a wrapping subtraction (shown at 16 bits)
wrapping_sub_bytes(l, r) == (l - r) % 65536

\* variant of saturating_sub_bytes: the absolute difference
abs_diff_bytes(l, r) == IF l >= r THEN l - r ELSE r - l

\* systemstat::saturating_sub_bytes on u64 byte counts (main.rs:94, 101)
saturating_sub_bytes(l, r) == IF l >= r THEN l - r ELSE 0

\* main.rs:92-98 and 99-105: Ok(reading) -> Some(Memory), Err -> None
ToMemory(res) ==
    IF res.some
    THEN Some([used |-> saturating_sub_bytes(res.val.total, res.val.free),
               total |-> res.val.total])
    ELSE None

\* main.rs:108: cpu.and_then(|f| f.done())
AndThenDone(started, done) == IF started THEN done ELSE None

\* variant of ScaleCpu: idle left as a fraction
ScaleCpuIdleRaw(l) ==
    [user |-> l.user * 100, nice |-> l.nice * 100,
     interrupt |-> l.interrupt * 100, system |-> l.system * 100,
     idle |-> l.idle]

\* main.rs:124-130
ScaleCpu(l) ==
    [user |-> l.user * 100, nice |-> l.nice * 100,
     interrupt |-> l.interrupt * 100, system |-> l.system * 100,
     idle |-> l.idle * 100]

\* variant of ErrorOf: swap checked before memory
ErrorOfSwapFirst(m, s, c) ==
    IF ~s.some THEN ErrorJson("failed to get swap usage")
    ELSE IF ~m.some THEN ErrorJson("failed to get memory usage")
    ELSE IF ~c.some THEN ErrorJson("failed to get cpu usage")
    ELSE NoResponse

\* main.rs:110-118: the early returns, in source order
ErrorOf(m, s, c) ==
    IF ~m.some THEN ErrorJson("failed to get memory usage")
    ELSE IF ~s.some THEN ErrorJson("failed to get swap usage")
    ELSE IF ~c.some THEN ErrorJson("failed to get cpu usage")
    ELSE NoResponse

\* variants of AfterChecks: memory stored before swap is checked; a failed
\* pass sampled again
AfterChecksEager(m, s, c) ==
    IF m.some /\ s.some /\ c.some THEN "w_cpu"
    ELSE IF m.some THEN "w_mem" ELSE "ret"
AfterChecksRetry(m, s, c) ==
    IF m.some /\ s.some /\ c.some THEN "w_cpu" ELSE "sample"

\* main.rs:110-123: where root goes after the three checks
AfterChecks(m, s, c) ==
    IF m.some /\ s.some /\ c.some THEN "w_cpu" ELSE "ret"

\* variant of OnFailure: a failed pass stamps the store, so that the next
\* pass waits for the window
OnFailureStamped(st, n) == [st EXCEPT !.last_updated = n]

\* main.rs:110-118: the store after an early return; nothing is assigned
\* before line 124
OnFailure(st, n) == st

\* variant of ReadSnapshot: memory and swap exchanged
ReadSnapshotSwapped(st) ==
    SnapshotJson(st.cpu_usage, st.swap_usage, st.memory_usage)

\* main.rs:140-144 and 146-150: json! of the three stored fields
ReadSnapshot(st) == SnapshotJson(st.cpu_usage, st.memory_usage, st.swap_usage)

\* variants of CanAcquire: a lock that excludes nobody; one that looks at
\* the queue only
CanAcquireAlways(h, w) == TRUE
CanAcquireQueueOnly(h, w) == w = << >>

\* main.rs:88: lock() takes the permit at once when nobody holds the guard
\* and nobody queues for it
CanAcquire(h, w) == h = {} /\ w = << >>

\* variant of GuardAcrossAwait: the guard dropped before the delay
GuardDroppedAtAwait(h, p) == h \ {p}

\* main.rs:88-107: the MutexGuard `state` is a local of root that lives to
\* the end of the function, so it is held across sleep(..).await
GuardAcrossAwait(h, p) == h

\* variant of AfterSample: a failed reading skips the delay
AfterSampleSkip(m, s, c) == IF m.some /\ s.some /\ c THEN "sleep" ELSE "decide"

\* main.rs:92-107: nothing between the three readings and the sleep looks
\* at their outcome
AfterSample(m, s, c) == "sleep"

\* variant of Release: an exit path that keeps the permit
ReleaseLeak(h, p) == h

\* main.rs:112, 114, 117, 140, 146: at each return the guard is dropped
Release(h, p) == h \ {p}

InCritical(p) == pc[p] \notin {"idle", "waiting"}
Checked(p) == pc[p] \notin {"idle", "waiting", "locked"}

\* -------------------------------------------------------------------- Init
\* variant of InitialState: a nonzero initial timestamp
InitialStateStamped ==
    [cpu_usage |-> ZeroCpu, memory_usage |-> ZeroMemory,
     swap_usage |-> ZeroMemory, last_updated |-> 1]

\* main.rs:47-64
InitialState ==
    [cpu_usage |-> ZeroCpu, memory_usage |-> ZeroMemory,
     swap_usage |-> ZeroMemory, last_updated |-> 0]

NoPrev ==
    [resp |-> NoResponse, last_updated |-> 0, now |-> 0]

NoFailure == 0 - 1
Untracked == 0 - 2

\* the byte counts SubSpec draws its readings from; 100 and 150 are the
\* pair of the anomalous reading total 100, free 150
SubValues == (0..MaxSub) \cup {100, 150}
NoSub == [reading |-> [total |-> 0, free |-> 0], out |-> None]

RootInit ==
    /\ state = InitialState
    /\ holders = {}
    /\ waiters = << >>
    /\ pc = [p \in Requests |-> "idle"]
    /\ now = [p \in Requests |-> 0]
    /\ mem = [p \in Requests |-> None]
    /\ swap = [p \in Requests |-> None]
    /\ cpu = [p \in Requests |-> FALSE]
    /\ cpu_usage = [p \in Requests |-> None]
    /\ resp = [p \in Requests |-> NoResponse]
    /\ sampled = [p \in Requests |-> 0]
    /\ sleeps = [p \in Requests |-> 0]
    /\ arrivedStale = [p \in Requests |-> FALSE]
    /\ handed = [p \in Requests |-> FALSE]
    /\ inOrder = [p \in Requests |-> FALSE]
    /\ before = [p \in Requests |-> InitialState]
    /\ firstAccess = "none"
    /\ prev = NoPrev
    /\ lastPass = << ZeroCpu, ZeroMemory, ZeroMemory >>

Init == RootInit /\ sub = NoSub /\ failedAt = Untracked

\* ----------------------------------------------------------------- actions
\* main.rs:87-88: a request enters root and calls state.lock(); it gets the
\* guard at once or joins the queue.
Arrive(p) ==
    /\ pc[p] = "idle"
    /\ IF CanAcquire(holders, waiters)
       THEN /\ holders' = holders \cup {p}
            /\ pc' = [pc EXCEPT ![p] = "locked"]
            /\ UNCHANGED << waiters, arrivedStale >>
       ELSE /\ waiters' = Append(waiters, p)
            /\ pc' = [pc EXCEPT ![p] = "waiting"]
            /\ arrivedStale' = [arrivedStale EXCEPT ![p] =
                  \E h \in holders :
                     Checked(h) /\ now[h] - state.last_updated > StaleAfter]
            /\ UNCHANGED holders
    /\ UNCHANGED << state, now, mem, swap, cpu, cpu_usage, resp, sampled,
                    sleeps, handed, inOrder, before, firstAccess, prev,
                    lastPass >>
    /\ UNCHANGED << failedAt, sub >>

\* main.rs:89-90: read the clock and branch on staleness
CheckStale(p, t) ==
    /\ pc[p] = "locked"
    /\ now' = [now EXCEPT ![p] = t]
    /\ pc' = [pc EXCEPT ![p] =
                IF IsStale(t, state.last_updated) THEN "sample" ELSE "cached"]
    /\ before' = [before EXCEPT ![p] = state]
    /\ firstAccess' = IF firstAccess = "none" THEN "now" ELSE firstAccess
    /\ inOrder' = [inOrder EXCEPT ![p] = handed[p] /\ t >= prev.now]
    /\ prev' = [prev EXCEPT !.now = 0]
    /\ arrivedStale' = [arrivedStale EXCEPT ![p] =
          IF handed[p] THEN @ ELSE t - state.last_updated > StaleAfter]
    /\ UNCHANGED << state, holders, waiters, mem, swap, cpu, cpu_usage, resp,
                    sampled, sleeps, handed, lastPass >>
    /\ UNCHANGED << failedAt, sub >>

\* main.rs:91-106: System::new(), memory(), swap(), cpu_load_aggregate()
Sample(p, m, s, c) ==
    /\ pc[p] = "sample"
    /\ mem' = [mem EXCEPT ![p] = ToMemory(m)]
    /\ swap' = [swap EXCEPT ![p] = ToMemory(s)]
    /\ cpu' = [cpu EXCEPT ![p] = c]
    /\ sampled' = [sampled EXCEPT ![p] = @ + 1]
    /\ pc' = [pc EXCEPT ![p] = AfterSample(m, s, c)]
    /\ holders' = GuardAcrossAwait(holders, p)
    /\ UNCHANGED << state, waiters, now, cpu_usage, resp, sleeps,
                    arrivedStale, handed, inOrder, before, firstAccess, prev,
                    lastPass >>
    /\ UNCHANGED << failedAt, sub >>

\* main.rs:107-108: the settling delay ends, then done(); and_then takes
\* `cpu` by value
Sleep(p, d) ==
    /\ pc[p] = "sleep"
    /\ cpu_usage' = [cpu_usage EXCEPT ![p] = AndThenDone(cpu[p], d)]
    /\ cpu' = [cpu EXCEPT ![p] = FALSE]
    /\ sleeps' = [sleeps EXCEPT ![p] = @ + 1]
    /\ pc' = [pc EXCEPT ![p] = "decide"]
    /\ UNCHANGED << state, holders, waiters, now, mem, swap, resp,
                    sampled, arrivedStale, handed, inOrder, before,
                    firstAccess, prev, lastPass >>
    /\ UNCHANGED << failedAt, sub >>

\* main.rs:110-122: one of the three early returns, or on to the update
Decide(p) ==
    /\ pc[p] = "decide"
    /\ pc' = [pc EXCEPT ![p] = AfterChecks(mem[p], swap[p], cpu_usage[p])]
    /\ resp' = [resp EXCEPT ![p] = ErrorOf(mem[p], swap[p], cpu_usage[p])]
    /\ state' = IF mem[p].some /\ swap[p].some /\ cpu_usage[p].some
                THEN state ELSE OnFailure(state, now[p])
    /\ UNCHANGED << holders, waiters, now, mem, swap, cpu, cpu_usage >>
    /\ UNCHANGED hist
    /\ failedAt' = IF failedAt = Untracked
                      \/ (mem[p].some /\ swap[p].some /\ cpu_usage[p].some)
                   THEN failedAt
                   ELSE IF failedAt = NoFailure \/ now[p] < failedAt
                        THEN now[p] ELSE failedAt
    /\ UNCHANGED sub

\* main.rs:124-130
WriteCpu(p) ==
    /\ pc[p] = "w_cpu"
    /\ state' = [state EXCEPT !.cpu_usage = ScaleCpu(cpu_usage[p].val)]
    /\ pc' = [pc EXCEPT ![p] = "w_mem"]
    /\ UNCHANGED << holders, waiters, now, mem, swap, cpu, cpu_usage, resp >>
    /\ UNCHANGED hist
    /\ UNCHANGED << failedAt, sub >>

\* main.rs:131-134
WriteMem(p) ==
    /\ pc[p] = "w_mem"
    /\ state' = [state EXCEPT !.memory_usage =
                    [used |-> mem[p].val.used, total |-> mem[p].val.total]]
    /\ pc' = [pc EXCEPT ![p] = "w_swap"]
    /\ UNCHANGED << holders, waiters, now, mem, swap, cpu, cpu_usage, resp >>
    /\ UNCHANGED hist
    /\ UNCHANGED << failedAt, sub >>

\* main.rs:135-138
WriteSwap(p) ==
    /\ pc[p] = "w_swap"
    /\ state' = [state EXCEPT !.swap_usage =
                    [used |-> swap[p].val.used, total |-> swap[p].val.total]]
    /\ pc' = [pc EXCEPT ![p] = "w_time"]
    /\ UNCHANGED << holders, waiters, now, mem, swap, cpu, cpu_usage, resp >>
    /\ UNCHANGED hist
    /\ UNCHANGED << failedAt, sub >>

\* main.rs:139; the pass is complete, the triple it built enters the history
WriteLastUpdated(p) ==
    /\ pc[p] = "w_time"
    /\ state' = [state EXCEPT !.last_updated = now[p]]
    /\ lastPass' = << ScaleCpu(cpu_usage[p].val), mem[p].val, swap[p].val >>
    /\ pc' = [pc EXCEPT ![p] = "respond"]
    /\ UNCHANGED << holders, waiters, now, mem, swap, cpu, cpu_usage, resp,
                    sampled, sleeps, arrivedStale, handed, inOrder, before,
                    firstAccess, prev >>
    /\ failedAt' = IF failedAt # Untracked
                      /\ mem[p].some /\ swap[p].some /\ cpu_usage[p].some
                   THEN NoFailure ELSE failedAt
    /\ UNCHANGED sub

\* main.rs:140-144: the response of a refreshing request
Respond(p) ==
    /\ pc[p] = "respond"
    /\ resp' = [resp EXCEPT ![p] = ReadSnapshot(state)]
    /\ pc' = [pc EXCEPT ![p] = "ret"]
    /\ UNCHANGED << state, holders, waiters, now, mem, swap, cpu, cpu_usage >>
    /\ UNCHANGED hist
    /\ UNCHANGED << failedAt, sub >>

\* main.rs:145-151: the response of a request that found the store fresh
Cached(p) ==
    /\ pc[p] = "cached"
    /\ resp' = [resp EXCEPT ![p] = ReadSnapshot(state)]
    /\ pc' = [pc EXCEPT ![p] = "ret"]
    /\ UNCHANGED << state, holders, waiters, now, mem, swap, cpu, cpu_usage >>
    /\ UNCHANGED hist
    /\ UNCHANGED << failedAt, sub >>

\* main.rs:152: root returns its Json; the locals and the guard are dropped,
\* and the Mutex hands the permit to the request at the head of the queue.
Return(p) ==
    /\ pc[p] = "ret"
    /\ IF waiters = << >> \/ Release(holders, p) # {}
       THEN /\ holders' = Release(holders, p)
            /\ pc' = [pc EXCEPT ![p] = "idle"]
            /\ handed' = [handed EXCEPT ![p] = FALSE]
            /\ prev' = NoPrev
            /\ UNCHANGED waiters
       ELSE /\ holders' = Release(holders, p) \cup {Head(waiters)}
            /\ waiters' = Tail(waiters)
            /\ pc' = [pc EXCEPT ![p] = "idle", ![Head(waiters)] = "locked"]
            /\ handed' = [handed EXCEPT ![p] = FALSE, ![Head(waiters)] = TRUE]
            /\ prev' = IF arrivedStale[p] /\ sampled[p] = 1
                          /\ arrivedStale[Head(waiters)]
                       THEN [resp |-> resp[p],
                             last_updated |-> state.last_updated,
                             now |-> now[p]]
                       ELSE NoPrev
    /\ now' = [now EXCEPT ![p] = 0]
    /\ mem' = [mem EXCEPT ![p] = None]
    /\ swap' = [swap EXCEPT ![p] = None]
    /\ cpu' = [cpu EXCEPT ![p] = FALSE]
    /\ cpu_usage' = [cpu_usage EXCEPT ![p] = None]
    /\ resp' = [resp EXCEPT ![p] = NoResponse]
    /\ sampled' = [sampled EXCEPT ![p] = 0]
    /\ sleeps' = [sleeps EXCEPT ![p] = 0]
    /\ arrivedStale' = [arrivedStale EXCEPT ![p] = FALSE]
    /\ inOrder' = [inOrder EXCEPT ![p] = FALSE]
    /\ before' = [before EXCEPT ![p] = InitialState]
    /\ firstAccess' = IF firstAccess = "now" THEN "past" ELSE firstAccess
    /\ UNCHANGED << state, lastPass >>
    /\ UNCHANGED << failedAt, sub >>

Next ==
    \/ \E p \in Requests : Arrive(p)
    \/ \E p \in Requests, t \in Times : CheckStale(p, t)
    \/ \E p \in Requests, m \in MemResults, s \in MemResults, c \in BOOLEAN :
          Sample(p, m, s, c)
    \/ \E p \in Requests, d \in DoneResults : Sleep(p, d)
    \/ \E p \in Requests : Decide(p)
    \/ \E p \in Requests : WriteCpu(p)
    \/ \E p \in Requests : WriteMem(p)
    \/ \E p \in Requests : WriteSwap(p)
    \/ \E p \in Requests : WriteLastUpdated(p)
    \/ \E p \in Requests : Respond(p)
    \/ \E p \in Requests : Cached(p)
    \/ \E p \in Requests : Return(p)

Spec == Init /\ [][Next]_vars

\* the steps of request p inside root, once it has called lock()
Step(p) ==
    \/ \E t \in Times : CheckStale(p, t)
    \/ \E m \in MemResults, s \in MemResults, c \in BOOLEAN : Sample(p, m, s, c)
    \/ \E d \in DoneResults : Sleep(p, d)
    \/ Decide(p) \/ WriteCpu(p) \/ WriteMem(p) \/ WriteSwap(p)
    \/ WriteLastUpdated(p) \/ Respond(p) \/ Cached(p) \/ Return(p)

\* every sampling call and the sleep return, and the runtime keeps polling
\* a task that can run; the FIFO hand-over of the permit is part of Return
LiveSpec == Init /\ [][Next]_vars /\ \A p \in Requests : WF_vars(Step(p))

\* the same requests, with the failed passes recorded
FailInit == RootInit /\ sub = NoSub /\ failedAt = NoFailure

FailSpec == FailInit /\ [][Next]_vars

\* ------------------------------------------- the conversion on its own
\* main.rs:92-98 (99-105 is the same code for swap): any reading the
\* Sampler can return, turned into a Memory.
SubInit ==
    /\ RootInit
    /\ failedAt = Untracked
    /\ sub \in { [reading |-> [total |-> t, free |-> f], out |-> None] :
                    t \in SubValues, f \in SubValues }

SubApply ==
    /\ ~sub.out.some
    /\ sub' = [sub EXCEPT !.out = ToMemory(Some(sub.reading))]
    /\ UNCHANGED << state, holders, waiters, pc, now, mem, swap, cpu,
                    cpu_usage, resp, failedAt >>
    /\ UNCHANGED hist

SubNext == SubApply

SubSpec == SubInit /\ [][SubNext]_vars

\* ------------------------------------------------------------ properties
MemoryError == [kind |-> "error", error |-> "failed to get memory usage"]
SwapError == [kind |-> "error", error |-> "failed to get swap usage"]
CpuError == [kind |-> "error", error |-> "failed to get cpu usage"]

\* the request took the refresh path / the cached path at main.rs:90
Refreshing(p) == pc[p] = "sample" \/ sampled[p] >= 1
Fresh(p) == pc[p] = "cached" \/ (pc[p] = "ret" /\ sampled[p] = 0)
\* the pass of the request is over and one of its three readings failed
PassFailed(p) ==
    /\ pc[p] \in {"decide", "w_cpu", "w_mem", "w_swap", "w_time", "respond", "ret"}
    /\ sampled[p] >= 1
    /\ (~mem[p].some \/ ~swap[p].some \/ ~cpu_usage[p].some)

\* C1: a request that holds the store with timestamp now samples if and only
\* if now - lastUpdated > 5: no pass at T + 5, a pass at T + 6.
C1_StalenessBoundary ==
    \A p \in Requests :
        Checked(p) =>
            /\ Refreshing(p) <=> (now[p] - before[p].last_updated > 5)
            /\ Fresh(p) <=> (now[p] - before[p].last_updated <= 5)
            /\ (now[p] = before[p].last_updated + 5 => Fresh(p))
            /\ (now[p] = before[p].last_updated + 6 => Refreshing(p))

\* a request at now = T + 5 on a store refreshed at T > 0 returned the cache
C1_Witness ==
    \E p \in Requests :
        /\ pc[p] = "ret" /\ sampled[p] = 0 /\ resp[p].kind = "ok"
        /\ before[p].last_updated > 0
        /\ now[p] = before[p].last_updated + 5

\* C2: when the sampling pass of a request fails in memory, swap or CPU, the
\* stored snapshot (cpu, memory, swap, lastUpdated) is the one the request
\* found, at every point up to its return.
C2_AllOrNothing ==
    \A p \in Requests : PassFailed(p) => state = before[p]

\* a pass failed at the swap stage over a store that held a real snapshot
C2_Witness ==
    \E p \in Requests :
        /\ pc[p] = "ret" /\ resp[p] = SwapError
        /\ mem[p].some /\ cpu_usage[p].some
        /\ before[p].last_updated > 0
        /\ mem[p].val # before[p].memory_usage

\* C3: a refreshing request reports one error in the order memory > swap >
\* cpu over all combinations of the three outcomes, and a snapshot exactly
\* when all three succeeded.
C3_ErrorPriority ==
    \A p \in Requests :
        (pc[p] = "ret" /\ sampled[p] >= 1) =>
            /\ resp[p] = MemoryError <=> ~mem[p].some
            /\ resp[p] = SwapError <=> (mem[p].some /\ ~swap[p].some)
            /\ resp[p] = CpuError <=>
                  (mem[p].some /\ swap[p].some /\ ~cpu_usage[p].some)
            /\ resp[p].kind = "ok" <=>
                  (mem[p].some /\ swap[p].some /\ cpu_usage[p].some)
            /\ resp[p].kind \in {"ok", "error"}

\* all three readings failed and the memory error was reported
C3_Witness ==
    \E p \in Requests :
        /\ pc[p] = "ret" /\ sampled[p] = 1
        /\ ~mem[p].some /\ ~swap[p].some /\ ~cpu_usage[p].some
        /\ resp[p] = MemoryError

\* C4: after a pass whose three readings succeeded the store holds exactly
\* these readings (the five CPU fractions times 100, memory and swap as
\* used/total), lastUpdated is the request's now, and the response carries
\* the stored values.
C4_SuccessfulRefresh ==
    \A p \in Requests :
        (pc[p] = "ret" /\ sampled[p] >= 1
           /\ mem[p].some /\ swap[p].some /\ cpu_usage[p].some) =>
            /\ state.cpu_usage.user = cpu_usage[p].val.user * 100
            /\ state.cpu_usage.nice = cpu_usage[p].val.nice * 100
            /\ state.cpu_usage.interrupt = cpu_usage[p].val.interrupt * 100
            /\ state.cpu_usage.system = cpu_usage[p].val.system * 100
            /\ state.cpu_usage.idle = cpu_usage[p].val.idle * 100
            /\ state.memory_usage = mem[p].val
            /\ state.swap_usage = swap[p].val
            /\ state.last_updated = now[p]
            /\ resp[p] = [kind |-> "ok", cpu |-> state.cpu_usage,
                          memory |-> state.memory_usage,
                          swap |-> state.swap_usage]

\* an idle fraction of 6/8 replaced an earlier snapshot and is reported as 75
C4_Witness ==
    \E p \in Requests :
        /\ pc[p] = "ret" /\ sampled[p] = 1 /\ resp[p].kind = "ok"
        /\ cpu_usage[p].val.idle = 6 /\ resp[p].cpu.idle = 600
        /\ before[p].last_updated > 0
        /\ before[p].cpu_usage # state.cpu_usage

\* C5: at most one request is between the lock and the drop of the guard
\* (staleness check, sampling pass with its settling delay, update).
C5_MutualExclusion ==
    /\ Cardinality({ p \in Requests : InCritical(p) }) <= 1
    /\ Cardinality(holders) <= 1
    /\ holders = { p \in Requests : InCritical(p) }

\* a request waits for the lock while another is in its settling delay
C5_Witness ==
    \E p, q \in Requests : pc[p] = "sleep" /\ pc[q] = "waiting"

\* C6: the triple of every successful response is the initial all-zero one
\* or the complete triple of one successful sampling pass (the last one
\* completed when the response is built).
C6_NoTornSnapshot ==
    \A p \in Requests :
        resp[p].kind = "ok" =>
            \/ << resp[p].cpu, resp[p].memory, resp[p].swap >> = lastPass
            \/ << resp[p].cpu, resp[p].memory, resp[p].swap >> =
                  << ZeroCpu, ZeroMemory, ZeroMemory >>

\* a request that waited through another's refresh answers from the cache
C6_Witness ==
    \E p \in Requests :
        /\ pc[p] = "ret" /\ handed[p] /\ sampled[p] = 0
        /\ prev.resp.kind = "ok"
        /\ resp[p].kind = "ok" /\ resp[p].cpu # ZeroCpu

\* q is the second of two concurrent requests that both arrived while the
\* store was stale; the first ran a sampling pass and q took the lock from it
Second(q) == handed[q] /\ prev.resp.kind # "none"

\* C7 as stated: of two concurrent requests that both arrived while the
\* store was stale, exactly one runs a sampling pass and both receive the
\* same result, snapshot or error.  Stated for the runs in which the first
\* of the two ran the pass, the second took the lock from it and read a
\* clock that had not gone backwards.
C7_OnePassSameResult ==
    \A q \in Requests :
        (pc[q] = "ret" /\ Second(q) /\ inOrder[q]) =>
            /\ sampled[q] = 0
            /\ resp[q] = prev.resp

\* C7 as amended: two concurrent requests both arrived while the store was
\* stale and the second took the lock from the first, which sampled.  If the
\* first pass succeeded and the second's now is at most 5 past the
\* lastUpdated the first stored, the second runs no pass and returns the
\* same snapshot: one pass in all.  If the first pass failed, the store is
\* left stale and the second, with a now not before the first's, runs a
\* sampling pass of its own.
C7_SerializedRequests ==
    \A q \in Requests :
        (Checked(q) /\ Second(q)) =>
            /\ (prev.resp.kind = "ok" /\ now[q] - prev.last_updated <= 5) =>
                  /\ sampled[q] = 0 /\ pc[q] \in {"cached", "ret"}
                  /\ pc[q] = "ret" => resp[q] = prev.resp
            /\ (prev.resp.kind = "error" /\ inOrder[q]) =>
                  /\ pc[q] # "cached"
                  /\ pc[q] # "sample" => sampled[q] = 1

\* the first of two such requests refreshed, the second returned its snapshot
C7_Witness ==
    \E q \in Requests :
        /\ pc[q] = "ret" /\ Second(q) /\ prev.resp.kind = "ok"
        /\ sampled[q] = 0 /\ resp[q] = prev.resp /\ resp[q].cpu # ZeroCpu

\* C8: a request that finds the store fresh (now - lastUpdated <= 5) runs no
\* sampling pass and no settling delay, leaves every stored field as it was
\* and returns exactly the stored cpu, memory and swap.
C8_CacheHit ==
    \A p \in Requests :
        (Checked(p) /\ now[p] - before[p].last_updated <= 5) =>
            /\ sampled[p] = 0 /\ sleeps[p] = 0
            /\ pc[p] \in {"cached", "ret"}
            /\ state = before[p]
            /\ pc[p] = "ret" =>
                  resp[p] = [kind |-> "ok", cpu |-> before[p].cpu_usage,
                             memory |-> before[p].memory_usage,
                             swap |-> before[p].swap_usage]

\* three seconds after a refresh the stored snapshot is returned
C8_Witness ==
    \E p \in Requests :
        /\ pc[p] = "ret" /\ sampled[p] = 0
        /\ before[p].last_updated > 0
        /\ now[p] = before[p].last_updated + 3
        /\ resp[p].kind = "ok" /\ resp[p].cpu # ZeroCpu
        /\ resp[p].memory # resp[p].swap

\* C9 as stated: the store starts all-zero with lastUpdated = 0 and the
\* first request to access it runs a sampling pass.
C9_FirstAccessSamples ==
    /\ firstAccess = "none" =>
          state = [cpu_usage |-> ZeroCpu, memory_usage |-> ZeroMemory,
                   swap_usage |-> ZeroMemory, last_updated |-> 0]
    /\ \A p \in Requests :
          (firstAccess = "now" /\ Checked(p)) => Refreshing(p)

\* C9 as amended: the store starts all-zero with lastUpdated = 0, and the
\* first request to access it runs a sampling pass exactly when its now is
\* greater than 5; with now <= 5 it returns the all-zero snapshot.
C9_FirstAccessSamplesAfterFive ==
    /\ firstAccess = "none" =>
          state = [cpu_usage |-> ZeroCpu, memory_usage |-> ZeroMemory,
                   swap_usage |-> ZeroMemory, last_updated |-> 0]
    /\ \A p \in Requests :
          (firstAccess = "now" /\ Checked(p)) =>
              /\ now[p] > 5 <=> Refreshing(p)
              /\ (now[p] <= 5 /\ pc[p] = "ret") =>
                    resp[p] = [kind |-> "ok", cpu |-> ZeroCpu,
                               memory |-> ZeroMemory, swap |-> ZeroMemory]

\* the first request read now = 6 and went through a sampling pass
C9_Witness ==
    \E p \in Requests :
        /\ firstAccess = "now" /\ pc[p] = "ret"
        /\ now[p] = 6 /\ sampled[p] = 1 /\ sleeps[p] = 1

\* C10: a request invokes the Sampler at most once; a failure is the error
\* response of that same request, with no second attempt.
C10_NoRetries ==
    \A p \in Requests :
        /\ sampled[p] <= 1
        /\ sleeps[p] <= sampled[p]
        /\ resp[p].kind = "error" => (pc[p] = "ret" /\ sampled[p] = 1)
        /\ PassFailed(p) => pc[p] \in {"decide", "ret"}

\* a later request sampled again after the failed pass of the previous one
C10_Witness ==
    \E q \in Requests :
        /\ pc[q] = "ret" /\ handed[q] /\ sampled[q] = 1
        /\ prev.resp.kind = "error"
        /\ resp[q].kind = "error"

\* C11: used <= total for memory and swap in every state of the store, the
\* initial one included, and in every successful response, whatever the
\* Sampler returns (also free > total).
C11_UsedAtMostTotal ==
    /\ state.memory_usage.used <= state.memory_usage.total
    /\ state.swap_usage.used <= state.swap_usage.total
    /\ state.memory_usage.used >= 0 /\ state.swap_usage.used >= 0
    /\ \A p \in Requests :
          /\ mem[p].some => (0 <= mem[p].val.used /\ mem[p].val.used <= mem[p].val.total)
          /\ swap[p].some => (0 <= swap[p].val.used /\ swap[p].val.used <= swap[p].val.total)
          /\ resp[p].kind = "ok" =>
                /\ resp[p].memory.used <= resp[p].memory.total
                /\ resp[p].swap.used <= resp[p].swap.total

\* the anomalous reading (total 1, free > 1) was stored and returned for both
C11_Witness ==
    \E p \in Requests :
        /\ pc[p] = "ret" /\ sampled[p] = 1 /\ resp[p].kind = "ok"
        /\ resp[p].memory = [used |-> 0, total |-> 1]
        /\ resp[p].swap = [used |-> 0, total |-> 1]
        /\ state.memory_usage = [used |-> 0, total |-> 1]

\* C12: for every reading, used = total - free when free <= total and
\* used = 0 when free > total; never negative, never wrapped around.
C12_SaturatingSubtraction ==
    sub.out.some =>
        /\ sub.out.val.total = sub.reading.total
        /\ sub.reading.free <= sub.reading.total =>
              sub.out.val.used = sub.reading.total - sub.reading.free
        /\ sub.reading.free > sub.reading.total => sub.out.val.used = 0
        /\ sub.out.val.used >= 0
        /\ sub.out.val.used <= sub.reading.total

\* total 100, free 150 gives used 0
C12_Witness ==
    /\ sub.reading = [total |-> 100, free |-> 150]
    /\ sub.out.some
    /\ sub.out.val.used = 0

\* C13: the lock is held across the settling delay: while a request is
\* anywhere in its refresh (sampling, sleeping, checking, writing, building
\* its response), every other request is outside root or queued on the
\* lock, and has neither read the clock, nor looked at the store, nor built
\* a response.
C13_LockAcrossDelay ==
    \A p \in Requests :
        (pc[p] \in {"sample", "sleep", "decide", "w_cpu", "w_mem", "w_swap",
                    "w_time", "respond"}
           \/ (pc[p] = "ret" /\ sampled[p] >= 1)) =>
            /\ p \in holders
            /\ \A q \in Requests \ {p} :
                  /\ pc[q] \in {"idle", "waiting"}
                  /\ now[q] = 0
                  /\ before[q] = [cpu_usage |-> ZeroCpu,
                                  memory_usage |-> ZeroMemory,
                                  swap_usage |-> ZeroMemory,
                                  last_updated |-> 0]
                  /\ resp[q].kind = "none"

\* a request that arrived during another's refresh still queues when that
\* refresh has slept and is writing the store
C13_Witness ==
    \E p, q \in Requests :
        /\ pc[p] = "w_swap" /\ sleeps[p] = 1
        /\ pc[q] = "waiting" /\ arrivedStale[q]
        /\ waiters = << q >>

\* C14: a request on the refresh path goes through exactly one settling
\* delay before it returns, whether it succeeds or reports any of the three
\* errors (a failed memory or swap reading does not skip the delay); none
\* has slept before its sampling, and none sleeps twice.
C14_OneDelayPerPass ==
    \A p \in Requests :
        /\ pc[p] \in {"decide", "w_cpu", "w_mem", "w_swap", "w_time",
                      "respond"} => sleeps[p] = 1
        /\ (pc[p] = "ret" /\ sampled[p] >= 1) => sleeps[p] = 1
        /\ (pc[p] = "ret" /\ resp[p].kind = "error") => sleeps[p] = 1
        /\ pc[p] \in {"sample", "sleep"} => sleeps[p] = 0
        /\ sleeps[p] <= 1

\* a memory failure known before the delay is reported after it
C14_Witness ==
    \E p \in Requests :
        /\ pc[p] = "ret" /\ sleeps[p] = 1
        /\ resp[p] = MemoryError
        /\ ~mem[p].some /\ ~swap[p].some

\* C15 as stated: the result a request shows is the snapshot that was
\* current at the moment it acquired the lock.  (The ordering half of the
\* claim is in C15_OrderedCompletion.)
C15_ResultAsAcquired ==
    \A p \in Requests :
        (pc[p] = "ret" /\ resp[p].kind = "ok") =>
            /\ resp[p].cpu = before[p].cpu_usage
            /\ resp[p].memory = before[p].memory_usage
            /\ resp[p].swap = before[p].swap_usage

\* C15: requests are not reordered: a request takes the lock only when every
\* request that took it earlier has completed, a queued request only as the
\* head of the queue and at the completion of the holder, a new one only
\* when nobody queues.  A request that finds the store fresh shows the
\* snapshot that was current when it acquired the lock; a request that
\* refreshes shows the snapshot it stored itself.
C15_OrderedCompletion ==
    /\ [](\A p \in Requests :
            (pc[p] = "ret" /\ resp[p].kind = "ok") =>
               IF sampled[p] = 0
               THEN /\ resp[p].cpu = before[p].cpu_usage
                    /\ resp[p].memory = before[p].memory_usage
                    /\ resp[p].swap = before[p].swap_usage
                    /\ state = before[p]
               ELSE /\ resp[p].memory = mem[p].val
                    /\ resp[p].swap = swap[p].val
                    /\ resp[p].cpu.user = cpu_usage[p].val.user * 100
                    /\ resp[p].cpu.idle = cpu_usage[p].val.idle * 100
                    /\ state.last_updated = now[p])
    /\ [][\A q \in Requests :
            (pc[q] \in {"idle", "waiting"} /\ pc'[q] = "locked") =>
               /\ \A p \in Requests \ {q} : pc'[p] \in {"idle", "waiting"}
               /\ pc[q] = "waiting" =>
                     /\ q = Head(waiters)
                     /\ \E p \in Requests \ {q} :
                           pc[p] = "ret" /\ pc'[p] = "idle"
               /\ pc[q] = "idle" => waiters = << >>]_vars

\* a request that took the lock from its predecessor refreshed, and shows
\* what it stored, not what it found
C15_Witness ==
    \E q \in Requests :
        /\ pc[q] = "ret" /\ handed[q] /\ sampled[q] = 1
        /\ resp[q].kind = "ok"
        /\ before[q].last_updated > 0
        /\ resp[q].memory # before[q].memory_usage
        /\ resp[q].memory = state.memory_usage

\* C16: there is no timeout, cancellation or watchdog around the sampling
\* call: a request that is in it leaves it only by the call returning, and
\* for as long as it has not returned the request keeps the lock, every
\* other request stays outside root or in the queue, and none of them has a
\* response.  A run in which the call never returns stays in such states
\* for ever.
C16_HungSamplerStalls ==
    /\ [](\A p \in Requests :
            pc[p] = "sample" =>
               /\ holders = {p}
               /\ \A q \in Requests \ {p} :
                     pc[q] \in {"idle", "waiting"} /\ resp[q].kind = "none")
    /\ [][\A p \in Requests :
            pc[p] = "sample" =>
               /\ pc'[p] \in {"sample", "sleep"}
               /\ p \in holders'
               /\ state' = state
               /\ \A q \in Requests \ {p} :
                     /\ pc'[q] \in {"idle", "waiting"}
                     /\ resp'[q].kind = "none"]_vars

\* a request queues behind a sampling call although the store holds a
\* snapshot of an earlier pass
C16_Witness ==
    \E p, q \in Requests :
        /\ pc[p] = "sample" /\ waiters = << q >>
        /\ state.last_updated > 0
        /\ state.memory_usage.total > 0

\* C17: a failed sampling pass leaves last_updated as it was, so every
\* later request whose now is not earlier than the failed request's runs a
\* sampling pass of its own, with its settling delay, however little time
\* has gone by, until a pass succeeds.
C17_FailuresNotRateLimited ==
    /\ failedAt >= 0 => failedAt - state.last_updated > 5
    /\ \A q \in Requests :
          /\ (pc[q] \notin {"idle", "waiting", "locked"}
                /\ failedAt >= 0 /\ now[q] >= failedAt) =>
                /\ pc[q] = "sample" \/ sampled[q] = 1
                /\ pc[q] = "ret" => sleeps[q] = 1
          /\ (pc[q] = "ret" /\ resp[q].kind = "error") =>
                /\ state = before[q]
                /\ failedAt >= 0 /\ failedAt <= now[q]

\* a request reads the very timestamp of an earlier failed pass and is
\* sampling again, its three readings already good
C17_Witness ==
    \E q \in Requests :
        /\ pc[q] = "w_cpu" /\ sampled[q] = 1 /\ sleeps[q] = 1
        /\ failedAt >= 0 /\ now[q] = failedAt

\* C18: every exit path of root (three error returns, refreshed snapshot,
\* cached snapshot) releases the lock, to the head of the queue if there is
\* one; so, when every sampling call returns and the lock is fair, every
\* request that entered root receives a response and leaves, also one
\* queued behind a request whose pass failed.
C18_EveryRequestAnswered ==
    /\ [][\A p \in Requests :
            (pc[p] = "ret" /\ pc'[p] = "idle") =>
               /\ p \notin holders'
               /\ waiters # << >> => holders' = {Head(waiters)}
               /\ waiters = << >> => holders' = {}]_vars
    /\ \A p \in Requests : (pc[p] # "idle") ~> (pc[p] = "ret")
    /\ \A p \in Requests : (pc[p] = "ret") ~> (pc[p] = "idle")
    /\ \A p, q \in Requests :
          (pc[p] = "ret" /\ resp[p].kind = "error" /\ pc[q] = "waiting")
             ~> (pc[q] = "ret")

\* a request is queued behind one that is returning an error
C18_Witness ==
    \E p, q \in Requests :
        /\ pc[p] = "ret" /\ resp[p].kind = "error"
        /\ pc[q] = "waiting" /\ waiters = << q >>
        /\ p \in holders

\* C19: a successful response carries the stored snapshot, and that
\* snapshot is at most 5 seconds old by the clock the request read under
\* the lock; a request whose sampling failed returns an error, never the
\* older snapshot.
C19_BoundedAge ==
    \A p \in Requests :
        /\ (pc[p] = "ret" /\ resp[p].kind = "ok") =>
              /\ now[p] - state.last_updated <= 5
              /\ resp[p].cpu = state.cpu_usage
              /\ resp[p].memory = state.memory_usage
              /\ resp[p].swap = state.swap_usage
        /\ (pc[p] = "ret" /\ now[p] - state.last_updated > 5) =>
              /\ resp[p].kind = "error"
              /\ sampled[p] = 1
              /\ ~(mem[p].some /\ swap[p].some /\ cpu_usage[p].some)

\* the store holds the snapshot of an earlier pass, now too old; the pass
\* of this request failed and it returns the error
C19_Witness ==
    \E p \in Requests :
        /\ pc[p] = "ret" /\ resp[p] = CpuError
        /\ state.last_updated > 0
        /\ state.memory_usage.total > 0
        /\ now[p] - state.last_updated > 5

\* C20: whatever the clock returns, also values that go backwards,
\* last_updated never decreases; it changes only at line 139 of a
\* successful pass, to that request's now, and then grows by more than 5:
\* the timestamps of two successful passes are at least 6 apart.
C20_MonotoneTimestamp ==
    [][/\ state'.last_updated >= state.last_updated
       /\ state'.last_updated # state.last_updated =>
             /\ state'.last_updated - state.last_updated >= 6
             /\ \E p \in Requests :
                   /\ pc[p] = "w_time" /\ pc'[p] = "respond"
                   /\ state'.last_updated = now[p]]_vars

\* a second successful pass has stored its timestamp, 6 above the one of
\* the pass before it
C20_Witness ==
    \E p \in Requests :
        /\ pc[p] = "respond" /\ sampled[p] = 1
        /\ before[p].last_updated > 0
        /\ state.last_updated = before[p].last_updated + 6
        /\ state.last_updated = now[p]

====
